---- MODULE Spec2Model ----
(***************************************************************************)
(* Model of the Dashboard's export code (src/api/messages.ts):             *)
(*   - downloadVideoTemplate: the animated video export of an audio        *)
(*     message (audio element, MediaRecorder, requestAnimationFrame loop,  *)
(*     'ended' handler with its flush timeout);                            *)
(*   - wrapText: the greedy word wrap of the card text.                    *)
(* Time is counted in units of 500 ms: the flush timeout of 500 ms is one  *)
(* unit and the one-second buffer of the frame loop is two units.          *)
(***************************************************************************)
EXTENDS Integers, Sequences, FiniteSets, TLC

\* ---------------------------------------------------------------- constants
FlushDelay == 1
Margin == 2

\* ------------------------------------------------------------------- bounds
MaxDur == 2
MaxStart == 1
MaxPlayDelay == 3
MaxLen == 5
MaxWidth == 4
ConcDur == 1
ConcStart == 0
ConcPlayDelay == 1

Exports == {"A", "B"}

\* ------------------------------------------------------- JavaScript numbers
\* A number is a non-negative rational n/d in lowest terms, Infinity or NaN.
RECURSIVE GCD(_, _)
GCD(a, b) == IF b = 0 THEN a ELSE GCD(b, a % b)

Fin(n, d) == LET g == GCD(n, d) IN [k |-> "fin", n |-> n \div g, d |-> d \div g]
Infinity == [k |-> "inf", n |-> 1, d |-> 0]
NaN == [k |-> "nan", n |-> 0, d |-> 0]
NoNumber == [k |-> "none", n |-> 0, d |-> 0]

One == Fin(1, 1)

IsFinite(a) == a.k = "fin"

\* a / b
Div(a, b) ==
  IF a.k = "nan" \/ b.k = "nan" THEN NaN
  ELSE IF a.k = "inf" THEN (IF b.k = "inf" THEN NaN ELSE Infinity)
  ELSE IF b.k = "inf" THEN Fin(0, 1)
  ELSE IF b.n = 0 THEN (IF a.n = 0 THEN NaN ELSE Infinity)
  ELSE Fin(a.n * b.d, a.d * b.n)

\* a + b
Plus(a, b) ==
  IF a.k = "nan" \/ b.k = "nan" THEN NaN
  ELSE IF a.k = "inf" \/ b.k = "inf" THEN Infinity
  ELSE Fin(a.n * b.d + b.n * a.d, a.d * b.d)

\* a < b (false when either is NaN)
Lt(a, b) ==
  IF a.k = "nan" \/ b.k = "nan" THEN FALSE
  ELSE IF a.k = "inf" THEN FALSE
  ELSE IF b.k = "inf" THEN TRUE
  ELSE a.n * b.d < b.n * a.d

\* Math.min(a, b)
MathMin(a, b) ==
  IF a.k = "nan" \/ b.k = "nan" THEN NaN
  ELSE IF Lt(b, a) THEN b ELSE a

\* The values audio.duration can have once canplaythrough has fired.
Durations == {Fin(i, 1) : i \in 0..MaxDur} \cup {Infinity}

\* What one run is given: the exports the user starts, the durations of the audio
\* files they play, how late an export may start, how long play() may take to
\* settle, and the last instant looked at.
OneExport ==
  [exports |-> {"A"}, durations |-> Durations, maxStart |-> MaxStart,
   maxPlayDelay |-> MaxPlayDelay,
   maxTime |-> MaxStart + MaxPlayDelay + MaxDur + Margin]
TwoExports ==
  [exports |-> Exports, durations |-> {Fin(ConcDur, 1)}, maxStart |-> ConcStart,
   maxPlayDelay |-> ConcPlayDelay,
   maxTime |-> ConcStart + ConcPlayDelay + ConcDur + Margin]

\* ---------------------------------------------------------------- variables
VARIABLES
  scenario,     \* what this run is given (never changes)
  now,          \* Date.now(), in units
  pc,           \* position of each downloadVideoTemplate call
  duration,     \* const duration = audio.duration
  startTime,    \* let startTime = Date.now()
  playStart,    \* when playback began (-1: not begun)
  audio,        \* the audio element: "none", "ready", "playing", "paused", "ended"
  endedAt,      \* when 'ended' fired (-1: not fired)
  flushAt,      \* deadline of the pending setTimeout of onended (-1: none)
  rafPending,   \* requestAnimationFrame(drawFrame) is pending
  recState,     \* recorder.state: "none" (not created), "recording", "inactive"
  stopTask,     \* the recorder's queued dataavailable + stop events
  stopCalls,    \* number of recorder.stop() calls
  chunks,       \* const chunks: Blob[]
  downloads,    \* the blobs handed to the browser as downloads
  elapsed,      \* elapsed of the last drawFrame
  progress,     \* progress of the last drawFrame
  failure,      \* what went wrong: "none", "load", "noctx", "nowebm", "play"
  toasts,       \* the toasts each call has shown
  text,         \* wrapText: text
  maxWidth,     \* wrapText: maxWidth
  words,        \* wrapText: words
  n,            \* wrapText: loop index n
  line,         \* wrapText: line
  lines,        \* wrapText: the lines drawn with fillText, in order
  wpc,          \* wrapText: "idle", "call", "loop", "done"
  imsg,         \* downloadMessage: message
  ipc,          \* downloadMessage: "idle", "wrapping", "done", "noctx"
  title,        \* downloadMessage: title
  badgeText,    \* downloadMessage: badgeText
  contentText,  \* downloadMessage: contentText
  barsDrawn,    \* downloadMessage: waveform bars drawn on the canvas
  iconDrawn,    \* downloadMessage: the audio icon is drawn on the canvas
  jpegs,        \* downloadMessage: number of JPEG downloads triggered
  username,     \* SendMessage: the :username route parameter ("" = not mounted)
  profile,      \* SendMessage: profile
  loading,      \* SendMessage: loading
  sending,      \* SendMessage: sending
  messageText,  \* SendMessage: messageText
  audioBlob,    \* SendMessage: audioBlob
  audioUrl,     \* SendMessage: audioUrl (the blob the object URL points to)
  spc,          \* SendMessage: the await a handler is suspended at
  request,      \* SendMessage: the locals of the suspended handler
  isRecording,  \* SendMessage: isRecording
  starting,     \* SendMessage: startRecording calls awaiting getUserMedia
  recorders,    \* SendMessage: the MediaRecorders created, in creation order
  mediaRecorderRef, \* SendMessage: mediaRecorderRef.current (0 = null)
  audioChunksRef,   \* SendMessage: audioChunksRef.current
  audioBlobParts,   \* SendMessage: the parts audioBlob was built from
  messages,     \* store: the rows of public.messages, in insertion order
  storage,      \* store: the object names of bucket audio-messages
  dbNow,        \* store: now()
  authUsers,    \* store: the ids of auth.users
  profiles,     \* store: the rows of public.profiles
  reply,        \* store: the last statement, who ran it, and its result
  dpc,          \* Dashboard: "unmounted", "mounted"
  fetching,     \* Dashboard: the fetches of the mount effect still pending
  dprofile,     \* Dashboard: profile
  dmessages,    \* Dashboard: messages
  loadingMessages, \* Dashboard: loadingMessages
  filePath,     \* Dashboard: filePath of the last downloadAudioFile
  outcome       \* the store or network operation the last step completed, its
                \* result and the toast shown for it

videoVars == <<now, pc, duration, startTime, playStart, audio, endedAt, flushAt,
               rafPending, recState, stopTask, stopCalls, chunks, downloads, elapsed,
               progress, failure, toasts>>
wrapVars == <<text, maxWidth, words, n, line, lines, wpc>>
imageVars == <<imsg, ipc, title, badgeText, contentText, barsDrawn, iconDrawn, jpegs>>
\* the components other than the video export and wrapText
recVars == <<isRecording, starting, recorders, mediaRecorderRef, audioChunksRef,
             audioBlobParts>>
sendVars == <<username, profile, loading, sending, messageText, audioBlob, audioUrl, spc,
              request, recVars>>
storeVars == <<messages, storage, dbNow>>
sqlVars == <<authUsers, profiles, reply>>
dashVars == <<dpc, fetching, dprofile, dmessages, loadingMessages, filePath>>
appVars == <<sendVars, storeVars, dashVars, outcome, sqlVars>>
others == <<imageVars, appVars>>
vars == <<scenario, videoVars, wrapVars, others>>
\* what the video export leaves alone
rest == <<scenario, wrapVars, others>>

\* ------------------------------------------------------------- video export
Set(f, e, v) == [f EXCEPT ![e] = v]

\* (mutation of Progress: the clamp to 1 is missing)
ProgressUnclamped(el, dur) == Div(el, dur)

\* const progress = Math.min(elapsed / duration, 1)
Progress(el, dur) == MathMin(Div(el, dur), One)

\* (mutation of ContinueAnimation: the buffer is two seconds)
ContinueAnimationLate(el, dur) == Lt(el, Plus(dur, Fin(2 * Margin, 1)))

\* if (elapsed < duration + 1)   (one second is Margin units)
ContinueAnimation(el, dur) == Lt(el, Plus(dur, Fin(Margin, 1)))

\* (mutation of FlushDeadline: onended stops the recorder without the delay)
FlushImmediately(t) == t

\* setTimeout(() => recorder.stop(), 500), armed at time t
FlushDeadline(t) == t + FlushDelay

\* (mutation of SetupThrows: the MediaRecorder.isTypeSupported check is missing)
SetupThrowsWithoutFormatCheck(env) == env \in {"noctx"}

\* the checks between reading the duration and recorder.start() that throw
SetupThrows(env) == env \in {"noctx", "nowebm"}

\* (mutation of ChunkList: one chunk list shared by every export)
ChunkListShared(e) == "A"

\* the chunk list recorder e's ondataavailable pushes to
ChunkList(e) == e

\* When the audio's last sample is played, after playback began: the duration
\* when it is finite; an audio of unknown (infinite) duration ends at any time.
AudioLength(d) == IF IsFinite(d) THEN d.n ELSE 0

\* audio.pause()
Pause(a) == IF a = "playing" THEN "paused" ELSE a

\* catch (error) { toast({ title: "Error", ... }) }
Catch(e) == toasts' = Set(toasts, e, toasts[e] \cup {"error"})

\* One call of drawFrame for export e, the audio element being in state aud.
\* stopThrows: whether recorder.stop() on an inactive recorder throws
\* InvalidStateError on this platform (the statements after it are then skipped).
drawFrame(e, aud, stopThrows) ==
  LET el == Fin(now - startTime[e], 1)
  IN /\ elapsed' = Set(elapsed, e, el)
     /\ progress' = Set(progress, e, Progress(el, duration[e]))
     /\ IF ContinueAnimation(el, duration[e])
        THEN /\ rafPending' = Set(rafPending, e, TRUE)
             /\ audio' = Set(audio, e, aud)
             /\ UNCHANGED <<recState, stopTask, stopCalls>>
        ELSE /\ rafPending' = Set(rafPending, e, FALSE)
             /\ stopCalls' = Set(stopCalls, e, stopCalls[e] + 1)
             /\ IF recState[e] = "recording"
                THEN /\ recState' = Set(recState, e, "inactive")
                     /\ stopTask' = Set(stopTask, e, TRUE)
                     /\ audio' = Set(audio, e, Pause(aud))
                ELSE /\ UNCHANGED <<recState, stopTask>>
                     /\ audio' = Set(audio, e, IF stopThrows THEN aud ELSE Pause(aud))

\* downloadVideoTemplate(message) up to the await of the audio load
downloadVideoTemplate(e) ==
  /\ pc[e] = "idle"
  /\ e \in scenario.exports
  /\ now <= scenario.maxStart
  /\ \E hasAudio \in BOOLEAN :
       IF hasAudio
       THEN /\ pc' = Set(pc, e, "loading")
            /\ toasts' = Set(toasts, e, toasts[e] \cup {"creating"})
       ELSE /\ pc' = Set(pc, e, "returned")
            /\ UNCHANGED toasts
  /\ UNCHANGED <<now, duration, startTime, playStart, audio, endedAt, flushAt,
                 rafPending, recState, stopTask, stopCalls, chunks, downloads,
                 elapsed, progress, failure, rest>>

\* audio.onerror: the awaited promise rejects and the catch block runs
onerror(e) ==
  /\ pc[e] = "loading"
  /\ pc' = Set(pc, e, "aborted")
  /\ failure' = Set(failure, e, "load")
  /\ Catch(e)
  /\ UNCHANGED <<now, duration, startTime, playStart, audio, endedAt, flushAt,
                 rafPending, recState, stopTask, stopCalls, chunks, downloads,
                 elapsed, progress, rest>>

\* audio.oncanplaythrough: the code from the duration read to audio.play()
oncanplaythrough(e) ==
  /\ pc[e] = "loading"
  /\ \E d \in scenario.durations, env \in {"ok", "noctx", "nowebm"} :
       /\ duration' = Set(duration, e, d)
       /\ IF env # "ok"
          THEN failure' = Set(failure, e, env)
          ELSE UNCHANGED failure
       /\ IF SetupThrows(env)
          THEN /\ pc' = Set(pc, e, "aborted")
               /\ Catch(e)
               /\ UNCHANGED <<startTime, audio, recState>>
          ELSE /\ pc' = Set(pc, e, "playPending")
               /\ recState' = Set(recState, e, "recording")
               /\ startTime' = Set(startTime, e, now)
               /\ audio' = Set(audio, e, "ready")
               /\ UNCHANGED toasts
  /\ UNCHANGED <<now, playStart, endedAt, flushAt, rafPending, stopTask, stopCalls,
                 chunks, downloads, elapsed, progress, rest>>

\* audio.play().then(() => drawFrame())
playThen(e) ==
  /\ pc[e] = "playPending"
  /\ pc' = Set(pc, e, "animating")
  /\ playStart' = Set(playStart, e, now)
  /\ drawFrame(e, "playing", FALSE)
  /\ UNCHANGED <<now, duration, startTime, endedAt, flushAt, chunks, downloads,
                 failure, toasts, rest>>

\* audio.play().catch(error => drawFrame())
playCatch(e) ==
  /\ pc[e] = "playPending"
  /\ pc' = Set(pc, e, "animating")
  /\ failure' = Set(failure, e, "play")
  /\ drawFrame(e, audio[e], FALSE)
  /\ UNCHANGED <<now, duration, startTime, playStart, endedAt, flushAt, chunks,
                 downloads, toasts, rest>>

\* the callback of requestAnimationFrame(drawFrame)
animationFrame(e) ==
  /\ rafPending[e]
  /\ \E stopThrows \in BOOLEAN : drawFrame(e, audio[e], stopThrows)
  /\ UNCHANGED <<now, pc, duration, startTime, playStart, endedAt, flushAt,
                 chunks, downloads, failure, toasts, rest>>

\* audio.onended: arms the flush timeout
onended(e) ==
  /\ audio[e] = "playing"
  /\ now >= playStart[e] + AudioLength(duration[e])
  /\ FlushDeadline(now) <= scenario.maxTime
  /\ audio' = Set(audio, e, "ended")
  /\ endedAt' = Set(endedAt, e, now)
  /\ flushAt' = Set(flushAt, e, FlushDeadline(now))
  /\ UNCHANGED <<now, pc, duration, startTime, playStart, rafPending, recState,
                 stopTask, stopCalls, chunks, downloads, elapsed, progress, failure,
                 toasts, rest>>

\* the setTimeout callback of onended: recorder.stop()
flushTimeout(e) ==
  /\ flushAt[e] >= 0
  /\ now >= flushAt[e]
  /\ flushAt' = Set(flushAt, e, -1)
  /\ stopCalls' = Set(stopCalls, e, stopCalls[e] + 1)
  /\ IF recState[e] = "recording"
     THEN /\ recState' = Set(recState, e, "inactive")
          /\ stopTask' = Set(stopTask, e, TRUE)
     ELSE UNCHANGED <<recState, stopTask>>
  /\ UNCHANGED <<now, pc, duration, startTime, playStart, audio, endedAt,
                 rafPending, chunks, downloads, elapsed, progress, failure, toasts,
                 rest>>

\* the task recorder.stop() queues: recorder.ondataavailable, then recorder.onstop
onstop(e) ==
  /\ stopTask[e]
  /\ stopTask' = Set(stopTask, e, FALSE)
  /\ \E size \in 0..1 :
       LET pushed == IF size > 0
                     THEN Set(chunks, ChunkList(e),
                              Append(chunks[ChunkList(e)], [rec |-> e, size |-> size]))
                     ELSE chunks
       IN /\ chunks' = pushed
          /\ downloads' = Set(downloads, e, Append(downloads[e], pushed[e]))
  /\ toasts' = Set(toasts, e, toasts[e] \cup {"success"})
  /\ UNCHANGED <<now, pc, duration, startTime, playStart, audio, endedAt, flushAt,
                 rafPending, recState, stopCalls, elapsed, progress, failure, rest>>

\* Time passes. A pending audio load settles by maxStart and a pending play()
\* promise within maxPlayDelay of recorder.start().
Advance ==
  /\ now < scenario.maxTime
  /\ \A e \in Exports :
       /\ pc[e] = "loading" => now < scenario.maxStart
       /\ pc[e] = "playPending" => now - startTime[e] < scenario.maxPlayDelay
  /\ now' = now + 1
  /\ UNCHANGED <<pc, duration, startTime, playStart, audio, endedAt, flushAt,
                 rafPending, recState, stopTask, stopCalls, chunks, downloads, elapsed,
                 progress, failure, toasts, rest>>

\* a string as the sequence of its characters
Chars(str) ==
  CASE str = "text" -> <<"t", "e", "x", "t">>
    [] str = "audio" -> <<"a", "u", "d", "i", "o">>
    [] str = "both" -> <<"b", "o", "t", "h">>

NoMessage == [type |-> <<>>, hasText |-> FALSE, text |-> <<>>]

ImageIdle ==
  /\ imsg = NoMessage
  /\ ipc = "idle"
  /\ title = ""
  /\ badgeText = <<>>
  /\ contentText = <<>>
  /\ barsDrawn = 0
  /\ iconDrawn = FALSE
  /\ jpegs = 0

\* null
Null == <<"null">>
NoBlob == [present |-> FALSE, type |-> ""]
NoProfile == [id |-> "", username |-> ""]
NoRequest == [text |-> Null, blob |-> NoBlob, fileName |-> Null]
NoOutcome == [op |-> "", error |-> FALSE, toast |-> ""]

SendIdle ==
  /\ username = ""
  /\ profile = NoProfile
  /\ loading = TRUE
  /\ sending = FALSE
  /\ messageText = <<>>
  /\ audioBlob = NoBlob
  /\ audioUrl = NoBlob
  /\ spc = "idle"
  /\ request = NoRequest
  /\ isRecording = FALSE
  /\ starting = 0
  /\ recorders = <<>>
  /\ mediaRecorderRef = 0
  /\ audioChunksRef = <<>>
  /\ audioBlobParts = <<>>

NoReply == [op |-> "", principal |-> "", ok |-> TRUE, rows |-> {}]

StoreEmpty ==
  /\ messages = <<>>
  /\ storage = {}
  /\ dbNow = 0
  /\ authUsers = {}
  /\ profiles = {}
  /\ reply = NoReply

\* users u1 and u2 have signed up as alice and bob; nothing was sent yet
Registered ==
  /\ messages = <<>>
  /\ storage = {}
  /\ dbNow = 0
  /\ authUsers = {"u1", "u2"}
  /\ profiles = {[id |-> "u1", username |-> "alice"], [id |-> "u2", username |-> "bob"]}
  /\ reply = NoReply

DashboardIdle ==
  /\ dpc = "unmounted"
  /\ fetching = {}
  /\ dprofile = NoProfile
  /\ dmessages = <<>>
  /\ loadingMessages = TRUE
  /\ filePath = Null

ViewsIdle == SendIdle /\ DashboardIdle /\ outcome = NoOutcome

AppIdle == ViewsIdle /\ StoreEmpty

OthersIdle == ImageIdle /\ AppIdle

WrapIdle ==
  /\ text = <<>>
  /\ maxWidth = 0
  /\ words = <<>>
  /\ n = 0
  /\ line = <<>>
  /\ lines = <<>>
  /\ wpc = "idle"

VideoIdle ==
  /\ now = 0
  /\ pc = [e \in Exports |-> "idle"]
  /\ duration = [e \in Exports |-> NoNumber]
  /\ startTime = [e \in Exports |-> 0]
  /\ playStart = [e \in Exports |-> -1]
  /\ audio = [e \in Exports |-> "none"]
  /\ endedAt = [e \in Exports |-> -1]
  /\ flushAt = [e \in Exports |-> -1]
  /\ rafPending = [e \in Exports |-> FALSE]
  /\ recState = [e \in Exports |-> "none"]
  /\ stopTask = [e \in Exports |-> FALSE]
  /\ stopCalls = [e \in Exports |-> 0]
  /\ chunks = [e \in Exports |-> <<>>]
  /\ downloads = [e \in Exports |-> <<>>]
  /\ elapsed = [e \in Exports |-> NoNumber]
  /\ progress = [e \in Exports |-> NoNumber]
  /\ failure = [e \in Exports |-> "none"]
  /\ toasts = [e \in Exports |-> {}]

Init == scenario = OneExport /\ VideoIdle /\ WrapIdle /\ OthersIdle
InitTwo == scenario = TwoExports /\ VideoIdle /\ WrapIdle /\ OthersIdle

Next ==
  \/ \E e \in Exports : downloadVideoTemplate(e)
  \/ \E e \in Exports : onerror(e)
  \/ \E e \in Exports : oncanplaythrough(e)
  \/ \E e \in Exports : playThen(e)
  \/ \E e \in Exports : playCatch(e)
  \/ \E e \in Exports : animationFrame(e)
  \/ \E e \in Exports : onended(e)
  \/ \E e \in Exports : flushTimeout(e)
  \/ \E e \in Exports : onstop(e)
  \/ Advance

Spec == Init /\ [][Next]_vars
SpecTwo == InitTwo /\ [][Next]_vars

\* The scheduling the browser guarantees while the page stays visible: time
\* passes, a pending load and a pending play() promise settle, a requested
\* animation frame is delivered, a due timeout runs and a queued recorder task
\* runs. Nothing makes the audio reach its end.
Fairness ==
  /\ WF_vars(Advance)
  /\ \A e \in Exports :
       /\ WF_vars(onerror(e) \/ oncanplaythrough(e))
       /\ WF_vars(playThen(e) \/ playCatch(e))
       /\ WF_vars(animationFrame(e))
       /\ WF_vars(flushTimeout(e))
       /\ WF_vars(onstop(e))
FairSpec == Init /\ [][Next]_vars /\ Fairness

\* ---------------------------------------------------------------- wrapText
\* A text is a sequence of characters; "W" is a wide glyph.
Alphabet == {"a", "W", " "}
Texts == UNION {[1..k -> Alphabet] : k \in 0..MaxLen}

\* ctx.measureText(s).width: the sum of the glyphs' advance widths
CharWidth(c) == IF c = "W" THEN 2 ELSE 1
RECURSIVE Width(_)
Width(s) == IF s = <<>> THEN 0 ELSE CharWidth(Head(s)) + Width(Tail(s))

\* text.split(' ')
RECURSIVE SplitFrom(_, _, _)
SplitFrom(s, i, word) ==
  IF i > Len(s) THEN <<word>>
  ELSE IF s[i] = " " THEN <<word>> \o SplitFrom(s, i + 1, <<>>)
  ELSE SplitFrom(s, i + 1, Append(word, s[i]))
Split(s) == SplitFrom(s, 1, <<>>)

\* const testLine = line + words[n] + ' '
TestLine(l, w) == l \o w \o <<" ">>

\* (mutation of FreshLine: the line begun after a flush is empty)
FreshLineWithoutWord(w) == <<>>

\* line = words[n] + ' '   (the line begun after a flush)
FreshLine(w) == w \o <<" ">>

\* (mutation of Overflows: the line is never broken)
OverflowsNever(tl, i) == FALSE

\* if (metrics.width > maxWidth && n > 0)
Overflows(tl, i) == Width(tl) > maxWidth /\ i > 0

\* const words = text.split(' '); let line = ''
wrapText ==
  /\ wpc = "call"
  /\ words' = Split(text)
  /\ line' = <<>>
  /\ n' = 0
  /\ wpc' = "loop"
  /\ UNCHANGED <<scenario, videoVars, others, text, maxWidth, lines>>

\* one iteration of for (let n = 0; n < words.length; n++)
wrapLoop ==
  /\ wpc = "loop"
  /\ n < Len(words)
  /\ LET testLine == TestLine(line, words[n + 1])
     IN IF Overflows(testLine, n)
        THEN /\ lines' = Append(lines, line)
             /\ line' = FreshLine(words[n + 1])
        ELSE /\ line' = testLine
             /\ UNCHANGED lines
  /\ n' = n + 1
  /\ UNCHANGED <<scenario, videoVars, others, text, maxWidth, words, wpc>>

\* ctx.fillText(line, x, drawY) after the loop
wrapDone ==
  /\ wpc = "loop"
  /\ n = Len(words)
  /\ lines' = Append(lines, line)
  /\ wpc' = "done"
  /\ UNCHANGED <<scenario, videoVars, others, text, maxWidth, words, n, line>>

InitWrap ==
  /\ scenario = OneExport
  /\ VideoIdle
  /\ OthersIdle
  /\ text \in Texts
  /\ maxWidth \in 1..MaxWidth
  /\ words = <<>>
  /\ n = 0
  /\ line = <<>>
  /\ lines = <<>>
  /\ wpc = "call"

NextWrap == wrapText \/ wrapLoop \/ wrapDone

SpecWrap == InitWrap /\ [][NextWrap]_vars

\* ------------------------------------------------- downloadMessage (image)
Bars == 48

\* message_type is 'text', 'audio' or 'both' (the CHECK constraint of the table)
MessageTypes == {Chars("text"), Chars("audio"), Chars("both")}

\* The messages of the Dashboard: message_text is null or a string.
ImageMessages ==
  {[type |-> ty, hasText |-> FALSE, text |-> <<>>] : ty \in MessageTypes}
    \cup {[type |-> ty, hasText |-> TRUE, text |-> t] : ty \in MessageTypes, t \in Texts}

\* 'Pesan audio diterima. Putar di Dashboard kamu.'
Placeholder ==
  <<"P", "e", "s", "a", "n", " ", "a", "u", "d", "i", "o", " ",
    "d", "i", "t", "e", "r", "i", "m", "a", ".", " ",
    "P", "u", "t", "a", "r", " ", "d", "i", " ",
    "D", "a", "s", "h", "b", "o", "a", "r", "d", " ", "k", "a", "m", "u", ".">>

\* String.prototype.toUpperCase, on the letters of the message types
UpperChar(c) ==
  CASE c = "a" -> "A" [] c = "b" -> "B" [] c = "d" -> "D" [] c = "e" -> "E"
    [] c = "h" -> "H" [] c = "i" -> "I" [] c = "o" -> "O" [] c = "t" -> "T"
    [] c = "u" -> "U" [] c = "x" -> "X" [] OTHER -> c
ToUpperCase(s) == [i \in 1..Len(s) |-> UpperChar(s[i])]

\* String.prototype.trim
RECURSIVE TrimStart(_)
TrimStart(s) ==
  IF s = <<>> THEN s
  ELSE IF Head(s) = " " THEN TrimStart(Tail(s)) ELSE s
RECURSIVE TrimEnd(_)
TrimEnd(s) ==
  IF s = <<>> THEN s
  ELSE IF s[Len(s)] = " " THEN TrimEnd(SubSeq(s, 1, Len(s) - 1)) ELSE s
\* (mutation of Trim: nothing is removed)
TrimNothing(s) == s

Trim(s) == TrimEnd(TrimStart(s))

\* (mutation of ContentText: the text is not trimmed before the test)
ContentTextUntrimmed(m) ==
  IF m.hasText /\ Len(m.text) > 0 THEN m.text ELSE Placeholder

\* message.message_text && message.message_text.trim().length > 0
\*   ? message.message_text : 'Pesan audio diterima. ...'
ContentText(m) ==
  IF m.hasText /\ m.text # <<>> /\ Len(Trim(m.text)) > 0 THEN m.text ELSE Placeholder

\* (mutation of DrawsWaveform: the bars are drawn for every type but 'text')
DrawsWaveformUnlessText(m) == m.type # Chars("text")

\* if (message.message_type === 'audio')
DrawsWaveform(m) == m.type = Chars("audio")

\* downloadMessage(message), up to the call of wrapText(contentText, ...)
downloadMessage ==
  /\ ipc = "idle"
  /\ wpc = "idle"
  /\ \E m \in ImageMessages, ctxOk \in BOOLEAN :
       /\ imsg' = m
       /\ IF ctxOk
          THEN /\ ipc' = "wrapping"
               /\ title' = IF m.type = Chars("audio") THEN "Anonymous Audio Message"
                           ELSE "Anonymous Message"
               /\ badgeText' = ToUpperCase(m.type)
               /\ contentText' = ContentText(m)
               /\ text' = ContentText(m)
               /\ wpc' = "call"
          ELSE /\ ipc' = "noctx"
               /\ UNCHANGED <<title, badgeText, contentText, text, wpc>>
  /\ UNCHANGED <<scenario, videoVars, appVars, maxWidth, words, n, line, lines,
                 barsDrawn, iconDrawn, jpegs>>

\* downloadMessage after wrapText has returned: waveform, footer, JPEG export
downloadMessageExport ==
  /\ ipc = "wrapping"
  /\ wpc = "done"
  /\ barsDrawn' = IF DrawsWaveform(imsg) THEN Bars ELSE 0
  /\ iconDrawn' = DrawsWaveform(imsg)
  /\ jpegs' = jpegs + 1
  /\ ipc' = "done"
  /\ UNCHANGED <<scenario, videoVars, wrapVars, appVars, imsg, title, badgeText,
                 contentText>>

InitImage ==
  /\ scenario = OneExport
  /\ VideoIdle
  /\ ImageIdle
  /\ AppIdle
  /\ text = <<>>
  /\ maxWidth \in 1..MaxWidth
  /\ words = <<>>
  /\ n = 0
  /\ line = <<>>
  /\ lines = <<>>
  /\ wpc = "idle"

NextImage == downloadMessage \/ wrapText \/ wrapLoop \/ wrapDone \/ downloadMessageExport

SpecImage == InitImage /\ [][NextImage]_vars

\* ------------------------------------------------ SendMessage and the store
MaxMessages == 1
MaxBlobs == 1
AppMessages == 2
AppBlobs == 1

\* what the Send view, the store and the Dashboard leave alone
notApp == <<scenario, videoVars, wrapVars, imageVars, sqlVars>>

\* Date.now(), as the decimal string the template literal makes of it
Millis == <<"1754786669000">>

\* const extMap: Record<string, string> = { ... }
ExtMap ==
  ("audio/webm" :> "webm") @@ ("audio/webm;codecs=opus" :> "webm")
    @@ ("audio/mpeg" :> "mp3") @@ ("audio/mp3" :> "mp3")
    @@ ("audio/mp4" :> "m4a") @@ ("audio/aac" :> "m4a")
    @@ ("audio/wav" :> "wav")
    @@ ("audio/ogg" :> "ogg") @@ ("audio/ogg;codecs=opus" :> "ogg")

\* file.type / mediaRecorder.mimeType: a table entry, none, or one without entry
BlobTypes == DOMAIN ExtMap \cup {"", "audio/flac", "audio/x-m4a"}

\* the Send view alone, with every blob type
SendOnly ==
  [usernames |-> {"alice", "nobody"},
   texts |-> {<<>>, <<" ">>, <<"a">>, <<" ", "a", " ">>},
   types |-> BlobTypes,
   times |-> {Millis[1]},
   maxMessages |-> MaxMessages,
   maxBlobs |-> MaxBlobs]
\* the Send view and the Dashboard of user u1
SendAndDashboard ==
  [usernames |-> {"alice", "bob"},
   texts |-> {<<>>, <<"a">>},
   types |-> {"audio/mp4"},
   times |-> {Millis[1]},
   maxMessages |-> AppMessages,
   maxBlobs |-> AppBlobs]

\* const mime = audioBlob.type || 'audio/webm'
Mime(blob) == IF blob.type = "" THEN "audio/webm" ELSE blob.type

\* (mutation of Ext: the table is ignored)
ExtAlwaysWebm(mime) == "webm"

\* const ext = extMap[mime] || 'webm'
Ext(mime) == IF mime \in DOMAIN ExtMap THEN ExtMap[mime] ELSE "webm"

\* `${Date.now()}-${profile.id}.${ext}`
FileName(t, id, ext) == <<t, "-", id, ".", ext>>

\* `audio-messages/${fileName}`
AudioRef(fileName) == <<"audio-messages", "/">> \o fileName

\* (mutation of Cleared: the input is cleared whatever the result)
ClearedAlways(ok, value, empty) == empty

\* setMessageText('') / setAudioBlob(null) run on the success path only
Cleared(ok, value, empty) == IF ok THEN empty ELSE value

Toast(op, ok, okText, errText) ==
  [op |-> op, error |-> ~ok, toast |-> IF ok THEN okText ELSE errText]

\* now() advances between two inserts or stays (equal timestamps); the first
\* row's timestamp is the origin of the time scale
Ticks == IF messages = <<>> THEN {0} ELSE {0, 1}

\* INSERT INTO public.messages: id, is_read and created_at take their defaults
Insert(rid, txt, url, ty, created) ==
  Append(messages,
         [id |-> Len(messages) + 1, recipient_id |-> rid, message_text |-> txt,
          audio_url |-> url, message_type |-> ty, is_read |-> FALSE,
          created_at |-> created])

\* the route /send/:username mounts the view; useEffect calls fetchProfile
openSendView(un) ==
  /\ spc = "idle"
  /\ username' = un
  /\ profile' = NoProfile
  /\ loading' = TRUE
  /\ sending' = FALSE
  /\ messageText' = <<>>
  /\ audioBlob' = NoBlob
  /\ audioUrl' = NoBlob
  /\ spc' = "fetchProfile"
  /\ request' = NoRequest
  /\ isRecording' = FALSE
  /\ mediaRecorderRef' = 0
  /\ audioChunksRef' = <<>>
  /\ audioBlobParts' = <<>>
  /\ outcome' = NoOutcome
  /\ UNCHANGED <<notApp, storeVars, dashVars, starting, recorders>>

\* fetchProfile of the Send view, from the answer of .single() on
SendFetchProfile ==
  /\ spc = "fetchProfile"
  /\ \E netOk \in BOOLEAN :
       LET found == {p \in profiles : p.username = username}
           ok == netOk /\ found # {}
       IN /\ profile' = IF ok THEN CHOOSE p \in found : TRUE ELSE profile
          /\ outcome' = Toast("SendMessage.fetchProfile", ok, "", "Error")
  /\ loading' = FALSE
  /\ spc' = "idle"
  /\ UNCHANGED <<notApp, storeVars, dashVars, username, sending, messageText,
                 audioBlob, audioUrl, request, recVars>>

\* onChange={(e) => setMessageText(e.target.value)}
setMessageText(t) ==
  /\ profile # NoProfile
  /\ t # messageText
  /\ messageText' = t
  /\ outcome' = NoOutcome
  /\ UNCHANGED <<notApp, storeVars, dashVars, username, profile, loading,
                 sending, audioBlob, audioUrl, spc, request, recVars>>

\* handleAudioFileSelected: the input is rendered while nothing is recording
\* and there is no blob
handleAudioFileSelected(ty) ==
  /\ profile # NoProfile
  /\ ~isRecording
  /\ ~audioBlob.present
  /\ \E tooBig \in BOOLEAN :
       IF tooBig
       THEN /\ outcome' = [op |-> "handleAudioFileSelected", error |-> FALSE,
                           toast |-> "File terlalu besar"]
            /\ UNCHANGED <<audioBlob, audioUrl, audioBlobParts, isRecording>>
       ELSE /\ audioBlob' = [present |-> TRUE, type |-> ty]
            /\ audioUrl' = [present |-> TRUE, type |-> ty]
            /\ audioBlobParts' = <<>>
            /\ isRecording' = FALSE
            /\ outcome' = NoOutcome
  /\ UNCHANGED <<notApp, storeVars, dashVars, username, profile, loading, sending,
                 messageText, spc, request, starting, recorders, mediaRecorderRef,
                 audioChunksRef>>

\* "Record Again": setAudioBlob(null); setAudioUrl(null)
recordAgain ==
  /\ profile # NoProfile
  /\ ~isRecording
  /\ audioBlob.present
  /\ audioBlob' = NoBlob
  /\ audioUrl' = NoBlob
  /\ audioBlobParts' = <<>>
  /\ outcome' = NoOutcome
  /\ UNCHANGED <<notApp, storeVars, dashVars, username, profile, loading,
                 sending, messageText, spc, request, isRecording, starting, recorders,
                 mediaRecorderRef, audioChunksRef>>

\* sendTextMessage up to the await of the insert
sendTextMessage ==
  /\ spc = "idle"
  /\ ~sending
  /\ profile # NoProfile
  /\ Trim(messageText) # <<>>
  /\ Len(messages) < scenario.maxMessages
  /\ sending' = TRUE
  /\ request' = [text |-> Trim(messageText), blob |-> NoBlob, fileName |-> Null]
  /\ spc' = "insertText"
  /\ outcome' = NoOutcome
  /\ UNCHANGED <<notApp, storeVars, dashVars, username, profile, loading,
                 messageText, audioBlob, audioUrl, recVars>>

\* sendTextMessage from the answer of the insert on
sendTextMessageDone ==
  /\ spc = "insertText"
  /\ \E ok \in BOOLEAN, dt \in Ticks :
       /\ IF ok
          THEN /\ messages' = Insert(profile.id, request.text, Null, Chars("text"), dbNow + dt)
               /\ dbNow' = dbNow + dt
          ELSE UNCHANGED <<messages, dbNow>>
       /\ outcome' = Toast("sendTextMessage", ok, "Success", "Error")
       /\ messageText' = Cleared(ok, messageText, <<>>)
  /\ sending' = FALSE
  /\ spc' = "idle"
  /\ request' = NoRequest
  /\ UNCHANGED <<notApp, dashVars, storage, username, profile, loading, audioBlob,
                 audioUrl, recVars>>

\* sendAudioMessage up to the await of the upload
sendAudioMessage ==
  /\ spc = "idle"
  /\ ~sending
  /\ profile # NoProfile
  /\ ~isRecording
  /\ audioBlob.present
  /\ Len(messages) < scenario.maxMessages
  /\ Cardinality(storage) < scenario.maxBlobs
  /\ \E t \in scenario.times :
       request' = [text |-> Null, blob |-> audioBlob,
                   fileName |-> FileName(t, profile.id, Ext(Mime(audioBlob)))]
  /\ sending' = TRUE
  /\ spc' = "upload"
  /\ outcome' = NoOutcome
  /\ UNCHANGED <<notApp, storeVars, dashVars, username, profile, loading,
                 messageText, audioBlob, audioUrl, recVars>>

\* sendAudioMessage from the answer of the upload to the await of the insert;
\* the bucket refuses a name it already holds (no upsert)
sendAudioMessageUploaded ==
  /\ spc = "upload"
  /\ \E netOk \in BOOLEAN :
       IF netOk /\ request.fileName \notin storage
       THEN /\ storage' = storage \cup {request.fileName}
            /\ spc' = "insert"
            /\ outcome' = Toast("upload", TRUE, "", "Error")
            /\ UNCHANGED <<sending, request>>
       ELSE /\ outcome' = Toast("upload", FALSE, "", "Error")
            /\ sending' = FALSE
            /\ spc' = "idle"
            /\ request' = NoRequest
            /\ UNCHANGED storage
  /\ UNCHANGED <<notApp, dashVars, messages, dbNow, username, profile, loading,
                 messageText, audioBlob, audioUrl, recVars>>

\* sendAudioMessage from the answer of the insert on
sendAudioMessageDone ==
  /\ spc = "insert"
  /\ \E ok \in BOOLEAN, dt \in Ticks :
       /\ IF ok
          THEN /\ messages' = Insert(profile.id, Null, AudioRef(request.fileName),
                                     Chars("audio"), dbNow + dt)
               /\ dbNow' = dbNow + dt
          ELSE UNCHANGED <<messages, dbNow>>
       /\ outcome' = Toast("insert", ok, "Success", "Error")
       /\ audioBlob' = Cleared(ok, audioBlob, NoBlob)
       /\ audioUrl' = Cleared(ok, audioUrl, NoBlob)
       /\ audioBlobParts' = Cleared(ok, audioBlobParts, <<>>)
  /\ sending' = FALSE
  /\ spc' = "idle"
  /\ request' = NoRequest
  /\ UNCHANGED <<notApp, dashVars, storage, username, profile, loading, messageText,
                 isRecording, starting, recorders, mediaRecorderRef, audioChunksRef>>

\* ------------------------------------------------- Send view: recording
\* startRecording calls
MaxRecorders == 2

\* the Send view of alice with its recorder
Recordings ==
  [usernames |-> {"alice"},
   texts |-> {<<>>},
   types |-> {"audio/mp4"},
   times |-> {Millis[1]},
   maxMessages |-> MaxMessages,
   maxBlobs |-> MaxBlobs,
   maxRecorders |-> MaxRecorders]

\* the candidates of startRecording that MediaRecorder.isTypeSupported
\* accepts first, "" when it accepts none
MimeTypes == {"audio/webm;codecs=opus", ""}

\* mediaRecorder.mimeType || mimeType || 'audio/webm'
DetectedType(recorderMimeType, mimeType) ==
  IF recorderMimeType # "" THEN recorderMimeType
  ELSE IF mimeType # "" THEN mimeType
  ELSE "audio/webm"

\* the recorders whose state is "recording"
Recording == {r \in DOMAIN recorders : recorders[r].state = "recording"}

\* startRecording up to the await of getUserMedia; "Mulai Rekam" is rendered
\* while nothing is recording and there is no blob
startRecording ==
  /\ profile # NoProfile
  /\ ~isRecording
  /\ ~audioBlob.present
  /\ starting + Len(recorders) < scenario.maxRecorders
  /\ starting' = starting + 1
  /\ outcome' = NoOutcome
  /\ UNCHANGED <<notApp, storeVars, dashVars, username, profile, loading, sending,
                 messageText, audioBlob, audioUrl, spc, request, isRecording, recorders,
                 mediaRecorderRef, audioChunksRef, audioBlobParts>>

\* startRecording from the stream getUserMedia resolved with
startRecordingGranted(mimeType) ==
  /\ starting > 0
  /\ starting' = starting - 1
  /\ recorders' = Append(recorders, [state |-> "recording", stopTask |-> FALSE,
                                     mimeType |-> mimeType, tracks |-> TRUE])
  /\ mediaRecorderRef' = Len(recorders) + 1
  /\ audioChunksRef' = <<>>
  /\ isRecording' = TRUE
  /\ outcome' = [op |-> "startRecording", error |-> FALSE, toast |-> "Recording started"]
  /\ UNCHANGED <<notApp, storeVars, dashVars, username, profile, loading, sending,
                 messageText, audioBlob, audioUrl, spc, request, audioBlobParts>>

\* startRecording when getUserMedia rejects
startRecordingDenied ==
  /\ starting > 0
  /\ starting' = starting - 1
  /\ outcome' = Toast("getUserMedia", FALSE, "", "Error")
  /\ UNCHANGED <<notApp, storeVars, dashVars, username, profile, loading, sending,
                 messageText, audioBlob, audioUrl, spc, request, isRecording, recorders,
                 mediaRecorderRef, audioChunksRef, audioBlobParts>>

\* stopRecording; "Stop Recording" is rendered while isRecording. stop() on
\* an inactive recorder returns or throws InvalidStateError before
\* setIsRecording, as the browser has it
stopRecording ==
  /\ profile # NoProfile
  /\ isRecording
  /\ IF mediaRecorderRef # 0
     THEN IF recorders[mediaRecorderRef].state = "recording"
          THEN /\ recorders' = [recorders EXCEPT ![mediaRecorderRef] =
                                  [@ EXCEPT !.state = "inactive", !.stopTask = TRUE]]
               /\ isRecording' = FALSE
               /\ outcome' = [op |-> "stopRecording", error |-> FALSE,
                              toast |-> "Recording stopped"]
          ELSE \E throws \in BOOLEAN :
                 /\ isRecording' = (throws /\ isRecording)
                 /\ outcome' = IF throws THEN NoOutcome
                               ELSE [op |-> "stopRecording", error |-> FALSE,
                                     toast |-> "Recording stopped"]
                 /\ UNCHANGED recorders
     ELSE /\ outcome' = NoOutcome
          /\ UNCHANGED <<recorders, isRecording>>
  /\ UNCHANGED <<notApp, storeVars, dashVars, username, profile, loading, sending,
                 messageText, audioBlob, audioUrl, spc, request, starting,
                 mediaRecorderRef, audioChunksRef, audioBlobParts>>

\* the task stop() queued for recorder r: ondataavailable with the data
\* recorded, then onstop
recorderStopped(r, size) ==
  /\ recorders[r].stopTask
  /\ LET pushed == IF size > 0 THEN Append(audioChunksRef, [recorder |-> r])
                   ELSE audioChunksRef
         type == DetectedType(recorders[r].mimeType, recorders[r].mimeType)
     IN /\ audioChunksRef' = pushed
        /\ audioBlob' = [present |-> TRUE, type |-> type]
        /\ audioUrl' = [present |-> TRUE, type |-> type]
        /\ audioBlobParts' = pushed
  /\ recorders' = [recorders EXCEPT ![r] = [@ EXCEPT !.stopTask = FALSE, !.tracks = FALSE]]
  /\ outcome' = NoOutcome
  /\ UNCHANGED <<notApp, storeVars, dashVars, username, profile, loading, sending,
                 messageText, spc, request, isRecording, starting, mediaRecorderRef>>

\* the view at /send/alice once fetchProfile has answered
ProfileLoaded ==
  /\ username = "alice"
  /\ profile = [id |-> "u1", username |-> "alice"]
  /\ loading = FALSE
  /\ sending = FALSE
  /\ messageText = <<>>
  /\ audioBlob = NoBlob
  /\ audioUrl = NoBlob
  /\ spc = "idle"
  /\ request = NoRequest
  /\ isRecording = FALSE
  /\ starting = 0
  /\ recorders = <<>>
  /\ mediaRecorderRef = 0
  /\ audioChunksRef = <<>>
  /\ audioBlobParts = <<>>

InitRecord ==
  /\ scenario = Recordings
  /\ VideoIdle /\ WrapIdle /\ ImageIdle
  /\ ProfileLoaded /\ DashboardIdle /\ outcome = NoOutcome
  /\ Registered

NextRecord ==
  \/ startRecording
  \/ \E mimeType \in MimeTypes : startRecordingGranted(mimeType)
  \/ startRecordingDenied
  \/ stopRecording
  \/ \E r \in DOMAIN recorders, size \in 0..1 : recorderStopped(r, size)
  \/ \E ty \in scenario.types : handleAudioFileSelected(ty)
  \/ recordAgain

SpecRecord == InitRecord /\ [][NextRecord]_vars

InitSend ==
  scenario = SendOnly /\ VideoIdle /\ WrapIdle /\ ImageIdle /\ ViewsIdle /\ Registered

NextSend ==
  \/ \E un \in scenario.usernames : openSendView(un)
  \/ SendFetchProfile
  \/ \E t \in scenario.texts : setMessageText(t)
  \/ \E ty \in scenario.types : handleAudioFileSelected(ty)
  \/ recordAgain
  \/ sendTextMessage
  \/ sendTextMessageDone
  \/ sendAudioMessage
  \/ sendAudioMessageUploaded
  \/ sendAudioMessageDone

SpecSend == InitSend /\ [][NextSend]_vars

\* --------------------------------------------------------------- Dashboard
\* user.id of the signed-in user
User == "u1"

Range(s) == {s[i] : i \in DOMAIN s}

\* .eq('recipient_id', user.id)
Eq(rows, uid) == SelectSeq(rows, LAMBDA r : r.recipient_id = uid)

\* (mutation of NewestFirst: ascending order)
OldestFirst(a, b) == a.created_at <= b.created_at

\* .order('created_at', { ascending: false }): a may precede b
NewestFirst(a, b) == a.created_at >= b.created_at

\* the answers of the select: the filtered rows in an order the ORDER BY allows
Select(uid) ==
  LET rows == Eq(messages, uid)
  IN {t \in [1..Len(rows) -> Range(rows)] :
        /\ Range(t) = Range(rows)
        /\ \A i \in 1..(Len(rows) - 1) : NewestFirst(t[i], t[i + 1])}

\* (mutation of FilePath: the prefix is kept)
FilePathUnstripped(url) == url

\* message.audio_url.replace(/^audio-messages\//, '')
FilePath(url) ==
  IF Len(url) >= 2 /\ SubSeq(url, 1, 2) = <<"audio-messages", "/">>
  THEN SubSeq(url, 3, Len(url))
  ELSE url

\* (mutation of MarkRead: every message of the list is marked read)
MarkReadAll(list, messageId) == [i \in 1..Len(list) |-> [list[i] EXCEPT !.is_read = TRUE]]

\* prev.map(msg => msg.id === messageId ? { ...msg, is_read: true } : msg)
MarkRead(list, messageId) ==
  [i \in 1..Len(list) |->
     IF list[i].id = messageId THEN [list[i] EXCEPT !.is_read = TRUE] ELSE list[i]]

\* the Dashboard is mounted (or reloaded); useEffect calls both fetches
mountDashboard ==
  /\ fetching = {}
  /\ dpc' = "mounted"
  /\ fetching' = {"fetchProfile", "fetchMessages"}
  /\ dprofile' = NoProfile
  /\ dmessages' = <<>>
  /\ loadingMessages' = TRUE
  /\ filePath' = Null
  /\ outcome' = NoOutcome
  /\ UNCHANGED <<notApp, sendVars, storeVars>>

\* fetchProfile of the Dashboard, from the answer of .single() on
DashboardFetchProfile ==
  /\ "fetchProfile" \in fetching
  /\ fetching' = fetching \ {"fetchProfile"}
  /\ \E ok \in BOOLEAN :
       /\ dprofile' = IF ok THEN CHOOSE p \in profiles : p.id = User ELSE dprofile
       /\ outcome' = [op |-> "Dashboard.fetchProfile", error |-> ~ok, toast |-> ""]
  /\ UNCHANGED <<notApp, sendVars, storeVars, dpc, dmessages, loadingMessages, filePath>>

\* fetchMessages, from the answer of the select on
fetchMessages ==
  /\ "fetchMessages" \in fetching
  /\ fetching' = fetching \ {"fetchMessages"}
  /\ \E ok \in BOOLEAN :
       /\ IF ok THEN dmessages' \in Select(User) ELSE UNCHANGED dmessages
       /\ outcome' = Toast("fetchMessages", ok, "", "Error")
  /\ loadingMessages' = FALSE
  /\ UNCHANGED <<notApp, sendVars, storeVars, dpc, dprofile, filePath>>

\* markAsRead(message.id); the button is rendered for unread messages
markAsRead(i) ==
  /\ i \in DOMAIN dmessages
  /\ ~dmessages[i].is_read
  /\ \E ok \in BOOLEAN :
       /\ IF ok
          THEN /\ messages' = [k \in DOMAIN messages |->
                                 IF messages[k].id = dmessages[i].id
                                      /\ messages[k].recipient_id = User
                                 THEN [messages[k] EXCEPT !.is_read = TRUE]
                                 ELSE messages[k]]
               /\ dmessages' = MarkRead(dmessages, dmessages[i].id)
          ELSE UNCHANGED <<messages, dmessages>>
       /\ outcome' = [op |-> "markAsRead", error |-> ~ok, toast |-> ""]
  /\ UNCHANGED <<notApp, sendVars, storage, dbNow, dpc, fetching, dprofile,
                 loadingMessages, filePath>>

\* downloadAudioFile(message)
downloadAudioFile(i) ==
  /\ i \in DOMAIN dmessages
  /\ dmessages[i].audio_url # Null
  /\ filePath' = FilePath(dmessages[i].audio_url)
  /\ \E ok \in BOOLEAN :
       outcome' = Toast("downloadAudioFile", ok, "Success", "Error")
  /\ UNCHANGED <<notApp, sendVars, storeVars, dpc, fetching, dprofile, dmessages,
                 loadingMessages>>

InitApp ==
  scenario = SendAndDashboard /\ VideoIdle /\ WrapIdle /\ ImageIdle /\ ViewsIdle /\ Registered

NextApp ==
  \/ NextSend
  \/ mountDashboard
  \/ DashboardFetchProfile
  \/ fetchMessages
  \/ \E i \in 1..AppMessages : markAsRead(i)
  \/ \E i \in 1..AppMessages : downloadAudioFile(i)

SpecApp == InitApp /\ [][NextApp]_vars

\* --------------------------------------- the store: constraints and policies
MaxInserts == 1

\* auth.users ids; a principal is an authenticated user or the anon role
Identities == {"u1", "u2"}
Principals == Identities \cup {"anon"}

\* raw_user_meta_data->>'username' ("NULL" = absent)
MetaUsernames == {"NULL", "alice", "user_u2"}
Usernames == {"alice", "bob"}
\* message_type values a client may send; <<"x">> fails the CHECK
InputTypes == {Chars("text"), Chars("audio"), <<"x">>}

\* auth.uid(): NULL for the anon role
AuthUid(p) == IF p = "anon" THEN "NULL" ELSE p

\* a = b of SQL: true only when neither side is NULL
SqlEq(a, b) == a # "NULL" /\ b # "NULL" /\ a = b

\* "Users can view all profiles": USING (true)
UsersCanViewAllProfiles(uid, row) == TRUE

\* "Users can update own profile": USING (auth.uid() = id)
UsersCanUpdateOwnProfile(uid, row) == SqlEq(uid, row.id)

\* "Users can insert own profile": WITH CHECK (auth.uid() = id)
UsersCanInsertOwnProfile(uid, row) == SqlEq(uid, row.id)

\* (mutation of UsersCanViewTheirOwnMessages: every row is visible)
AnyoneCanViewMessages(uid, row) == TRUE

\* "Users can view their own messages":
\* USING (recipient_id IN (SELECT id FROM public.profiles WHERE id = auth.uid()))
UsersCanViewTheirOwnMessages(uid, row) ==
  row.recipient_id \in {p.id : p \in {q \in profiles :
                                        UsersCanViewAllProfiles(uid, q) /\ SqlEq(q.id, uid)}}

\* "Anyone can create messages": WITH CHECK (true)
AnyoneCanCreateMessages(uid, row) == TRUE

\* "Users can update their own messages": USING (the same expression); with no
\* WITH CHECK the new row is checked against USING
UsersCanUpdateTheirOwnMessages(uid, row) ==
  row.recipient_id \in {p.id : p \in {q \in profiles :
                                        UsersCanViewAllProfiles(uid, q) /\ SqlEq(q.id, uid)}}

\* row level security is enabled and no policy is FOR DELETE: no row passes
NoDeletePolicy(uid, row) == FALSE

\* 'user_' || substr(NEW.id::text, 1, 8)
DefaultUsername(id) == CASE id = "u1" -> "user_u1" [] id = "u2" -> "user_u2"

\* the row handle_new_user inserts: COALESCE(metadata username, default)
handle_new_user(id, meta) ==
  [id |-> id, username |-> IF meta # "NULL" THEN meta ELSE DefaultUsername(id)]

\* PRIMARY KEY (id), username UNIQUE, id REFERENCES auth.users, for a new row
\* next to the rows in others
ProfileConstraints(row, otherRows) ==
  /\ row.id \in authUsers
  /\ \A r \in otherRows : r.id # row.id /\ r.username # row.username

\* recipient_id REFERENCES profiles(id), CHECK (message_type IN (...))
MessageConstraints(row) ==
  /\ row.recipient_id \in {p.id : p \in profiles}
  /\ row.message_type \in MessageTypes

Reply(op, p, ok, rows) == [op |-> op, principal |-> p, ok |-> ok, rows |-> rows]

storeRest == <<scenario, videoVars, wrapVars, imageVars, sendVars, dashVars, outcome, storage>>

\* a sign-up inserts into auth.users; the trigger on_auth_user_created runs
\* handle_new_user in the same transaction
signUp(id, meta) ==
  /\ id \notin authUsers
  /\ LET row == handle_new_user(id, meta)
         ok == \A r \in profiles : r.id # row.id /\ r.username # row.username
     IN /\ authUsers' = IF ok THEN authUsers \cup {id} ELSE authUsers
        /\ profiles' = IF ok THEN profiles \cup {row} ELSE profiles
        /\ reply' = Reply("signUp", id, ok, {row})
  /\ UNCHANGED <<storeRest, messages, dbNow>>

\* the auth service deletes a user: ON DELETE CASCADE to profiles, then messages
deleteUser(id) ==
  /\ id \in authUsers
  /\ authUsers' = authUsers \ {id}
  /\ profiles' = {p \in profiles : p.id # id}
  /\ messages' = SelectSeq(messages, LAMBDA r : r.recipient_id # id)
  /\ reply' = Reply("deleteUser", "service", TRUE, {p \in profiles : p.id = id})
  /\ UNCHANGED <<storeRest, dbNow>>

\* INSERT INTO profiles (id, username) by principal p
insertProfile(p, id, un) ==
  /\ LET row == [id |-> id, username |-> un]
         ok == UsersCanInsertOwnProfile(AuthUid(p), row) /\ ProfileConstraints(row, profiles)
     IN /\ profiles' = IF ok THEN profiles \cup {row} ELSE profiles
        /\ reply' = Reply("insertProfile", p, ok, {row})
  /\ UNCHANGED <<storeRest, authUsers, messages, dbNow>>

\* UPDATE profiles SET username = un WHERE id = ... by principal p
updateProfile(p, id, un) ==
  /\ LET rows == {r \in profiles : r.id = id /\ UsersCanUpdateOwnProfile(AuthUid(p), r)}
         new == {[r EXCEPT !.username = un] : r \in rows}
         ok == \A r \in new : /\ UsersCanUpdateOwnProfile(AuthUid(p), r)
                              /\ ProfileConstraints(r, profiles \ rows)
     IN /\ profiles' = IF ok THEN (profiles \ rows) \cup new ELSE profiles
        /\ reply' = Reply("updateProfile", p, ok, rows)
  /\ UNCHANGED <<storeRest, authUsers, messages, dbNow>>

\* DELETE FROM profiles WHERE id = ... by principal p
deleteProfile(p, id) ==
  /\ LET rows == {r \in profiles : r.id = id /\ NoDeletePolicy(AuthUid(p), r)}
     IN /\ profiles' = profiles \ rows
        /\ messages' = SelectSeq(messages, LAMBDA r : r.recipient_id \notin {q.id : q \in rows})
        /\ reply' = Reply("deleteProfile", p, TRUE, rows)
  /\ UNCHANGED <<storeRest, authUsers, dbNow>>

\* INSERT INTO messages (recipient_id, message_type) by principal p
insertMessage(p, rid, ty) ==
  /\ dbNow < MaxInserts
  /\ LET row == [id |-> dbNow + 1, recipient_id |-> rid, message_text |-> Null,
                 audio_url |-> Null, message_type |-> ty, is_read |-> FALSE,
                 created_at |-> dbNow + 1]
         ok == AnyoneCanCreateMessages(AuthUid(p), row) /\ MessageConstraints(row)
     IN /\ messages' = IF ok THEN Append(messages, row) ELSE messages
        /\ dbNow' = IF ok THEN dbNow + 1 ELSE dbNow
        /\ reply' = Reply("insertMessage", p, ok, {row})
  /\ UNCHANGED <<storeRest, authUsers, profiles>>

\* SELECT * FROM messages by principal p
selectMessages(p) ==
  /\ reply' = Reply("selectMessages", p, TRUE,
                    {r \in Range(messages) : UsersCanViewTheirOwnMessages(AuthUid(p), r)})
  /\ UNCHANGED <<storeRest, authUsers, profiles, messages, dbNow>>

\* UPDATE messages SET recipient_id = rid, is_read = read WHERE id = mid
updateMessage(p, mid, rid, read) ==
  /\ LET hit(r) == r.id = mid /\ UsersCanUpdateTheirOwnMessages(AuthUid(p), r)
         new(r) == [r EXCEPT !.recipient_id = rid, !.is_read = read]
         rows == {r \in Range(messages) : hit(r)}
         ok == \A r \in rows : /\ UsersCanUpdateTheirOwnMessages(AuthUid(p), new(r))
                               /\ MessageConstraints(new(r))
     IN /\ messages' = IF ok
                       THEN [k \in DOMAIN messages |->
                               IF hit(messages[k]) THEN new(messages[k]) ELSE messages[k]]
                       ELSE messages
        /\ reply' = Reply("updateMessage", p, ok, rows)
  /\ UNCHANGED <<storeRest, authUsers, profiles, dbNow>>

\* DELETE FROM messages WHERE id = mid by principal p
deleteMessage(p, mid) ==
  /\ LET rows == {r \in Range(messages) : r.id = mid /\ NoDeletePolicy(AuthUid(p), r)}
     IN /\ messages' = SelectSeq(messages, LAMBDA r : r \notin rows)
        /\ reply' = Reply("deleteMessage", p, TRUE, rows)
  /\ UNCHANGED <<storeRest, authUsers, profiles, dbNow>>

InitStore == scenario = OneExport /\ VideoIdle /\ WrapIdle /\ OthersIdle

NextStore ==
  \/ \E id \in Identities, meta \in MetaUsernames : signUp(id, meta)
  \/ \E id \in Identities : deleteUser(id)
  \/ \E p \in Principals, id \in Identities, un \in Usernames : insertProfile(p, id, un)
  \/ \E p \in Principals, id \in Identities, un \in Usernames : updateProfile(p, id, un)
  \/ \E p \in Principals, id \in Identities : deleteProfile(p, id)
  \/ \E p \in Principals, rid \in Identities, ty \in InputTypes : insertMessage(p, rid, ty)
  \/ \E p \in Principals : selectMessages(p)
  \/ \E p \in Principals, mid \in 1..MaxInserts, rid \in Identities, read \in BOOLEAN :
       updateMessage(p, mid, rid, read)
  \/ \E p \in Principals, mid \in 1..MaxInserts : deleteMessage(p, mid)

SpecStore == InitStore /\ [][NextStore]_vars

\* ------------------------------------------------------------------ claims
FinitePositive(d) == IsFinite(d) /\ d.n > 0

\* C1 (as stated): for an audio of finite duration d > 0 the recorder is stopped
\* no later than d + 1 seconds after the recording start time: it is never still
\* recording once more than d + 1 seconds have passed since startTime.
C1_StoppedWithinDurationPlusOne ==
  \A e \in Exports :
    (recState[e] = "recording" /\ FinitePositive(duration[e]))
      => now - startTime[e] <= duration[e].n + Margin

\* C1 (amended): for an audio of finite duration d > 0 the recorder is stopped at
\* the latest by the first drawFrame call whose elapsed time has reached d + 1
\* seconds: after such a frame the recorder is inactive and no frame is requested.
C1_StoppedByFirstFrameAfterTimeout ==
  \A e \in Exports :
    (FinitePositive(duration[e]) /\ IsFinite(elapsed[e])
       /\ elapsed[e].n >= duration[e].n + Margin)
      => (recState[e] = "inactive" /\ ~rafPending[e])

\* C1 witness: a frame past d + 1 seconds has stopped the recorder of an audio that
\* never reached its end.
C1_Witness ==
  \E e \in Exports :
    /\ FinitePositive(duration[e])
    /\ IsFinite(elapsed[e])
    /\ elapsed[e].n > duration[e].n + Margin
    /\ endedAt[e] = -1
    /\ recState[e] = "inactive"

\* C2: the recorder leaves the recording state exactly at the first of (a) the
\* flush timeout running, FlushDelay or more after 'ended', and (b) a drawFrame
\* whose elapsed time has reached duration + 1 second; each of the two leaves it
\* inactive, and once inactive it records no more: it stays inactive, its chunk
\* list is final once downloaded, and there is at most one download.
C2_StopsAtFirstOfFlushAndTimeout ==
  [][\A e \in Exports :
       LET flushRan == flushAt[e] >= 0 /\ flushAt'[e] = -1
           timeoutFrame == /\ elapsed'[e] # elapsed[e] \/ stopCalls'[e] # stopCalls[e]
                           /\ flushAt'[e] = flushAt[e]
                           /\ IsFinite(elapsed'[e])
                           /\ IsFinite(duration[e])
                           /\ elapsed'[e].n >= duration[e].n + Margin
       IN /\ (recState[e] = "recording" /\ recState'[e] # "recording")
               => \/ flushRan /\ endedAt[e] >= 0 /\ now >= endedAt[e] + FlushDelay
                  \/ timeoutFrame
          /\ flushRan => recState'[e] = "inactive"
          /\ timeoutFrame => recState'[e] = "inactive"
          /\ recState[e] = "inactive" => recState'[e] = "inactive"
          /\ downloads[e] # <<>> => (chunks'[e] = chunks[e] /\ downloads'[e] = downloads[e])
          /\ Len(downloads'[e]) <= 1
    ]_vars

\* C2 witness: the flush timeout stopped the recorder and the video was downloaded
\* while the frame loop had not yet reached its timeout.
C2_Witness ==
  \E e \in Exports :
    /\ recState[e] = "inactive"
    /\ endedAt[e] >= 0
    /\ flushAt[e] = -1
    /\ stopCalls[e] = 1
    /\ rafPending[e]
    /\ Len(downloads[e]) = 1

\* C3: when playback started successfully, the recorder is never stopped before
\* the audio's 'ended' event has fired.
C3_NeverStoppedBeforeEnded ==
  \A e \in Exports :
    (playStart[e] >= 0 /\ recState[e] = "inactive") => endedAt[e] >= 0

\* C4: for a finite duration d > 0 the progress of a frame at elapsed time t is
\* min(t/d, 1), and from one frame of an export to the next it never decreases.
C4_ProgressIsClampedRatioAndMonotone ==
  [][\A e \in Exports :
       (FinitePositive(duration'[e]) /\ IsFinite(elapsed'[e]))
         => /\ IsFinite(progress'[e])
            /\ IF elapsed'[e].n >= duration'[e].n
               THEN progress'[e].n = progress'[e].d
               ELSE progress'[e].n * duration'[e].n = elapsed'[e].n * progress'[e].d
            /\ IsFinite(progress[e])
                 => progress[e].n * progress'[e].d <= progress'[e].n * progress[e].d
    ]_vars

\* C4 witness: a frame drawn after the audio's duration has progress 1, its
\* predecessor having been drawn before it.
C4_Witness ==
  \E e \in Exports :
    /\ FinitePositive(duration[e])
    /\ IsFinite(elapsed[e])
    /\ elapsed[e].n > duration[e].n
    /\ progress[e] = One

\* C5: whatever the audio duration is (zero and Infinity included), the progress
\* of every frame is a number in [0, 1], never NaN.
C5_ProgressInUnitInterval ==
  \A e \in Exports :
    progress[e] # NoNumber
      => (IsFinite(progress[e]) /\ 0 <= progress[e].n /\ progress[e].n <= progress[e].d)

Local(e) ==
  <<pc[e], duration[e], startTime[e], playStart[e], audio[e], endedAt[e], flushAt[e],
    rafPending[e], recState[e], stopTask[e], stopCalls[e], chunks[e], downloads[e],
    elapsed[e], progress[e], failure[e], toasts[e]>>

\* C8: two concurrent exports share no mutable state: a callback of one export
\* (its stop and its failure included) changes nothing of the other, and every
\* downloaded blob holds only chunks captured by its own recorder.
C8_ExportsDoNotInteract ==
  [][\A e \in Exports :
       /\ \A o \in Exports \ {e} : Local(e)' # Local(e) => Local(o)' = Local(o)
       /\ \A i \in 1..Len(downloads'[e]) :
            \A j \in 1..Len(downloads'[e][i]) : downloads'[e][i][j].rec = e
    ]_vars

\* C8 witness: export A has stopped and downloaded its own chunk while export B
\* is still recording.
C8_Witness ==
  /\ recState["A"] = "inactive"
  /\ Len(downloads["A"]) = 1
  /\ Len(downloads["A"][1]) = 1
  /\ recState["B"] = "recording"
  /\ rafPending["B"]

\* C9: a text whose rendered width does not exceed maxWidth is drawn as exactly
\* one line.
C9_FittingTextIsOneLine ==
  (wpc = "done" /\ Width(text) <= maxWidth) => Len(lines) = 1

\* Whitespace normalisation: runs of spaces become one space, and the spaces at
\* both ends are removed.
RECURSIVE StripLeading(_)
StripLeading(s) ==
  IF s = <<>> THEN s
  ELSE IF Head(s) = " " THEN StripLeading(Tail(s)) ELSE s
RECURSIVE Collapse(_)
Collapse(s) ==
  IF s = <<>> THEN <<>>
  ELSE IF Head(s) = " "
       THEN LET t == StripLeading(Tail(s))
            IN IF t = <<>> THEN <<>> ELSE <<" ">> \o Collapse(t)
       ELSE <<Head(s)>> \o Collapse(Tail(s))
Normalize(s) == Collapse(StripLeading(s))

\* The lines joined in order, a single space between two lines.
RECURSIVE JoinLines(_)
JoinLines(ls) ==
  IF ls = <<>> THEN <<>>
  ELSE IF Len(ls) = 1 THEN ls[1]
  ELSE ls[1] \o <<" ">> \o JoinLines(Tail(ls))

\* C10: joining the lines wrapText drew, in order and with single spaces between
\* them, gives the original text up to whitespace normalisation.
C10_JoinedLinesReproduceText ==
  wpc = "done" => Normalize(JoinLines(lines)) = Normalize(text)

\* C10 witness: a text was wrapped into three lines.
C10_Witness ==
  /\ wpc = "done"
  /\ Len(lines) = 3
  /\ Normalize(text) # <<>>


AllSpaces(s) == \A i \in 1..Len(s) : s[i] = " "

\* C11: in the still-image export the badge label is the upper-cased message
\* type, and the waveform bars and the audio icon are drawn if and only if the
\* message type is 'audio'; a 'text' message gets the badge TEXT and no bars.
C11_BadgeIsTypeAndBarsIffAudio ==
  ipc = "done"
    => /\ imsg.type = <<"t", "e", "x", "t">> => badgeText = <<"T", "E", "X", "T">>
       /\ imsg.type = <<"a", "u", "d", "i", "o">> => badgeText = <<"A", "U", "D", "I", "O">>
       /\ imsg.type = <<"b", "o", "t", "h">> => badgeText = <<"B", "O", "T", "H">>
       /\ (barsDrawn > 0) <=> (imsg.type = <<"a", "u", "d", "i", "o">>)
       /\ iconDrawn <=> (imsg.type = <<"a", "u", "d", "i", "o">>)

\* C11 witness: a 'text' message with text "a" ("hi") was exported with the badge
\* TEXT and no waveform bars.
C11_Witness ==
  /\ ipc = "done"
  /\ imsg.type = <<"t", "e", "x", "t">>
  /\ imsg.text = <<"a">>
  /\ badgeText = <<"T", "E", "X", "T">>
  /\ barsDrawn = 0
  /\ jpegs = 1

\* C12: in the still-image export the content text is the placeholder exactly
\* when the message's text is null, empty or whitespace-only, and otherwise the
\* message text unchanged; it is the text wrapText is given.
C12_PlaceholderIffBlankText ==
  ipc \in {"wrapping", "done"}
    => /\ (~imsg.hasText \/ AllSpaces(imsg.text)) => contentText = Placeholder
       /\ ~(~imsg.hasText \/ AllSpaces(imsg.text)) => contentText = imsg.text
       /\ text = contentText

\* C12 witness: an 'audio' message with an empty text was exported with the
\* placeholder as content text.
C12_Witness ==
  /\ ipc = "done"
  /\ imsg.type = <<"a", "u", "d", "i", "o">>
  /\ imsg.hasText
  /\ imsg.text = <<>>
  /\ contentText = Placeholder
  /\ barsDrawn = Bars

\* C13: in sendAudioMessage the storage extension is the table's entry for the
\* blob's MIME type (audio/mp4 gives m4a), and webm when the MIME type is empty
\* or has no entry in the table.
C13_ExtensionIsTableEntryOrWebm ==
  spc \in {"upload", "insert"}
    => LET type == request.blob.type
           ext == request.fileName[5]
       IN /\ type = "audio/mp4" => ext = "m4a"
          /\ type = "audio/aac" => ext = "m4a"
          /\ type \in {"audio/webm", "audio/webm;codecs=opus"} => ext = "webm"
          /\ type \in {"audio/mpeg", "audio/mp3"} => ext = "mp3"
          /\ type = "audio/wav" => ext = "wav"
          /\ type \in {"audio/ogg", "audio/ogg;codecs=opus"} => ext = "ogg"
          /\ type \notin {"audio/mp4", "audio/aac", "audio/webm", "audio/webm;codecs=opus",
                          "audio/mpeg", "audio/mp3", "audio/wav", "audio/ogg",
                          "audio/ogg;codecs=opus"}
               => ext = "webm"

\* C13 witness: a blob of type audio/mp4 is being uploaded under the extension m4a.
C13_Witness ==
  /\ spc = "upload"
  /\ request.blob.type = "audio/mp4"
  /\ request.fileName[5] = "m4a"

\* C14: the audio reference of every message made by sendAudioMessage is
\* 'audio-messages/' followed by the uploaded object name
\* '<epoch-millis>-<recipientId>.<ext>', and the path downloadAudioFile derives
\* from a reference is the name of the uploaded object the message refers to.
C14_ReferenceIsPrefixedNameAndPathIsName ==
  /\ \A k \in DOMAIN messages :
       messages[k].message_type = <<"a", "u", "d", "i", "o">>
         => LET url == messages[k].audio_url
            IN /\ Len(url) = 7
               /\ url[1] = "audio-messages" /\ url[2] = "/"
               /\ url[3] = "1754786669000"
               /\ url[4] = "-"
               /\ url[5] = messages[k].recipient_id
               /\ url[6] = "."
               /\ url[7] \in {"webm", "mp3", "m4a", "wav", "ogg"}
               /\ <<url[3], url[4], url[5], url[6], url[7]>> \in storage
  /\ filePath # <<"null">>
       => /\ filePath \in storage
          /\ \E k \in DOMAIN messages :
               messages[k].audio_url = <<"audio-messages", "/">> \o filePath

\* C14 witness: the Dashboard derived the path of an uploaded m4a object of
\* user u1 from a message's reference.
C14_Witness ==
  /\ filePath = <<"1754786669000", "-", "u1", ".", "m4a">>
  /\ filePath \in storage
  /\ outcome.op = "downloadAudioFile"

\* C15 (as stated): whenever no send is in progress, every object in the bucket
\* is referenced by exactly one message's audio reference.
C15_EveryBlobReferencedOnce ==
  spc = "idle"
    => \A name \in storage :
         Cardinality({k \in DOMAIN messages :
                        messages[k].audio_url = <<"audio-messages", "/">> \o name}) = 1

\* C18: the step that ends a send (text or audio; after the upload or after
\* the insert) sets sending to false; when it ends in failure it leaves the text,
\* the audio blob and its preview URL as they are, and a step of a send changes
\* one of them only when the send succeeded.
C18_FailedSendKeepsInputs ==
  [][/\ (spc \in {"insertText", "upload", "insert"} /\ spc' = "idle")
          => /\ sending' = FALSE
             /\ outcome'.error
                  => /\ messageText' = messageText
                     /\ audioBlob' = audioBlob
                     /\ audioUrl' = audioUrl
     /\ (/\ spc \in {"insertText", "upload", "insert"}
         /\ spc' # spc
         /\ <<messageText, audioBlob, audioUrl>>' # <<messageText, audioBlob, audioUrl>>)
          => /\ ~outcome'.error
             /\ outcome'.toast = "Success"
             /\ spc = "insertText" => messageText' = <<>> /\ audioBlob' = audioBlob
             /\ spc = "insert" => audioBlob' = [present |-> FALSE, type |-> ""]
                                    /\ audioUrl' = [present |-> FALSE, type |-> ""]
                                    /\ messageText' = messageText]_vars

\* C18 witness: an audio send failed at the insert, after the upload, and the
\* blob and its preview are still there with sending false.
C18_Witness ==
  /\ outcome.op = "insert"
  /\ outcome.error
  /\ spc = "idle"
  /\ ~sending
  /\ audioBlob.present
  /\ audioUrl = audioBlob
  /\ storage # {}

\* C19 (as stated): every failed store or network operation of the Send view
\* and of the Dashboard is surfaced as an error notification.
C19_EveryFailureNotified ==
  outcome.error => outcome.toast = "Error"

\* C20: the Dashboard's list holds only messages whose recipient is the signed-in
\* user, newest first by creation timestamp, and a markAsRead step keeps the
\* entries and their order, changing nothing but a read flag.
C20_ListIsOwnNewestFirstAndMarkKeepsEntries ==
  /\ [](/\ \A i \in DOMAIN dmessages : dmessages[i].recipient_id = "u1"
        /\ \A i, j \in DOMAIN dmessages :
             i < j => dmessages[i].created_at >= dmessages[j].created_at)
  /\ [][outcome'.op = "markAsRead"
          => /\ Len(dmessages') = Len(dmessages)
             /\ \A i \in DOMAIN dmessages :
                  \/ dmessages'[i] = dmessages[i]
                  \/ dmessages'[i] = [dmessages[i] EXCEPT !.is_read = TRUE]]_vars

\* C20 witness: the list holds two messages of u1 with different timestamps,
\* the newer one first, and the older one was just marked read.
C20_Witness ==
  /\ Len(dmessages) = 2
  /\ dmessages[1].created_at > dmessages[2].created_at
  /\ dmessages[2].is_read /\ ~dmessages[1].is_read
  /\ messages[1].is_read /\ ~messages[2].is_read
  /\ outcome = [op |-> "markAsRead", error |-> FALSE, toast |-> ""]

\* C16: under the row-level policies any principal, the anon role included, can
\* insert a message (that satisfies the table's constraints); a select returns
\* to a principal only messages whose recipient it is; a message row is changed
\* only by an update of the principal who is its recipient; and a message row
\* disappears only in a step that deletes its recipient's profile.
C16_MessagePoliciesHold ==
  /\ [](reply.op = "selectMessages"
          => \A r \in reply.rows : r.recipient_id = reply.principal)
  /\ [][/\ (/\ reply'.op = "insertMessage"
            /\ \A r \in reply'.rows :
                 /\ \E q \in profiles : q.id = r.recipient_id
                 /\ r.message_type \in {<<"t", "e", "x", "t">>, <<"a", "u", "d", "i", "o">>,
                                        <<"b", "o", "t", "h">>})
             => /\ reply'.ok
                /\ \A r \in reply'.rows :
                     \E k \in DOMAIN messages' : messages'[k] = r
        /\ \A k \in DOMAIN messages :
             LET r == messages[k]
                 after == {j \in DOMAIN messages' : messages'[j].id = r.id}
             IN /\ after = {}
                     => /\ \E q \in profiles : q.id = r.recipient_id
                        /\ ~\E q \in profiles' : q.id = r.recipient_id
                /\ (\E j \in after : messages'[j] # r)
                     => /\ reply'.op = "updateMessage"
                        /\ reply'.principal = r.recipient_id]_vars

\* C16 witness: a message the anon role inserted for u1 was marked read by u1,
\* is still there after a delete by u1, and a select by u2 returned nothing.
C16_Witness ==
  /\ reply = [op |-> "selectMessages", principal |-> "u2", ok |-> TRUE, rows |-> {}]
  /\ Len(messages) = 1
  /\ messages[1].recipient_id = "u1"
  /\ messages[1].is_read

\* C17 (as stated): no two profiles share a username or an identity, and the
\* username of an existing profile never changes.
C17_UsernameUniqueAndNeverChanges ==
  /\ [](\A p, q \in profiles : (p.username = q.username \/ p.id = q.id) => p = q)
  /\ [][\A p \in profiles : \A q \in profiles' : q.id = p.id => q.username = p.username]_vars

\* C21: every message inserted through the Send view is consistent with its
\* type: a 'text' row has a non-empty text without leading or trailing blanks
\* and no audio reference, an 'audio' row refers to an object that was uploaded;
\* a send is under way only with a recipient profile and a non-blank text,
\* respectively an audio blob, and rows are inserted only by such a send.
C21_InsertedMessagesMatchTheirType ==
  /\ [](/\ \A k \in DOMAIN messages :
             LET m == messages[k]
             IN /\ m.message_type \in {<<"t", "e", "x", "t">>, <<"a", "u", "d", "i", "o">>}
                /\ m.message_type = <<"t", "e", "x", "t">>
                     => /\ m.message_text # <<"null">>
                        /\ Len(m.message_text) > 0
                        /\ m.message_text[1] # " "
                        /\ m.message_text[Len(m.message_text)] # " "
                        /\ m.audio_url = <<"null">>
                /\ m.message_type = <<"a", "u", "d", "i", "o">>
                     => /\ m.audio_url # <<"null">>
                        /\ SubSeq(m.audio_url, 3, Len(m.audio_url)) \in storage
        /\ spc \in {"insertText", "upload", "insert"} => profile.id \in {"u1", "u2"}
        /\ spc = "insertText" => Len(request.text) > 0 /\ request.text # <<"null">>
        /\ spc \in {"upload", "insert"} => request.blob.present)
  /\ [][/\ (spc = "idle" /\ spc' = "insertText")
             => \E i \in DOMAIN messageText : messageText[i] # " "
        /\ (spc = "idle" /\ spc' = "upload") => audioBlob.present
        /\ messages' # messages => spc \in {"insertText", "insert"} /\ ~outcome'.error]_vars

\* C21 witness: a text message was sent and stored as a 'text' row holding the
\* trimmed text and no audio reference, and the input was cleared.
C21_Witness ==
  /\ Len(messages) = 1
  /\ messages[1].message_text = <<"a">>
  /\ messages[1].audio_url = <<"null">>
  /\ outcome = [op |-> "sendTextMessage", error |-> FALSE, toast |-> "Success"]
  /\ messageText = <<>>

\* the number of words placed on a line: every word is followed by one blank
\* and holds none
WordsOn(l) == Cardinality({i \in DOMAIN l : l[i] = " "})

\* C22: every emitted line of wrapText that holds two or more words measures,
\* trailing blank included, at most maxWidth (so only a one-word line can be
\* wider), and when the next word would make the line too wide the line is
\* emitted first and the word starts the next line.
C22_OnlyOneWordLinesOverflow ==
  /\ [](\A k \in DOMAIN lines : WordsOn(lines[k]) >= 2 => Width(lines[k]) <= maxWidth)
  /\ [][(/\ wpc = "loop" /\ n' = n + 1 /\ n > 0
         /\ Width(line \o words[n + 1] \o <<" ">>) > maxWidth)
          => /\ lines' = lines \o <<line>>
             /\ line' = words[n + 1] \o <<" ">>]_vars

\* C22 witness: wrapText has emitted a line of two words within maxWidth and a
\* line of one word that is wider than maxWidth.
C22_Witness ==
  /\ wpc = "done"
  /\ \E k \in DOMAIN lines : WordsOn(lines[k]) = 2 /\ Width(lines[k]) <= maxWidth
  /\ \E k \in DOMAIN lines : WordsOn(lines[k]) = 1 /\ Width(lines[k]) > maxWidth

\* C23 (as stated): in each video export recorder.stop() is called at most
\* once, never on a recorder that is already stopped, and the download is
\* triggered at most once.
C23_StopRequestedAtMostOnce ==
  \A e \in Exports : stopCalls[e] <= 1 /\ Len(downloads[e]) <= 1

\* C24: a step of the Send view or the Dashboard leaves every stored message as
\* it is, except that a successful markAsRead turns the read flag of one message
\* from false to true; a failed markAsRead leaves the store and the Dashboard's
\* list unchanged; and a message that is read in the Dashboard's list is read in
\* the store.
C24_OnlyReadFlagChangesAndLocalFollowsStore ==
  /\ [](\A i \in DOMAIN dmessages :
          dmessages[i].is_read
            => \E k \in DOMAIN messages :
                 messages[k].id = dmessages[i].id /\ messages[k].is_read)
  /\ [][/\ \A k \in DOMAIN messages :
             /\ k \in DOMAIN messages'
             /\ \/ messages'[k] = messages[k]
                \/ /\ outcome' = [op |-> "markAsRead", error |-> FALSE, toast |-> ""]
                   /\ ~messages[k].is_read
                   /\ messages'[k] = [messages[k] EXCEPT !.is_read = TRUE]
                   /\ \A j \in DOMAIN messages : j # k => messages'[j] = messages[j]
        /\ (outcome'.op = "markAsRead" /\ outcome'.error)
             => messages' = messages /\ dmessages' = dmessages]_vars

\* C24 witness: of two messages in the Dashboard's list one was marked read, in
\* the store too, and a markAsRead of the other has just failed, leaving it
\* unread in both.
C24_Witness ==
  /\ outcome = [op |-> "markAsRead", error |-> TRUE, toast |-> ""]
  /\ Len(dmessages) = 2
  /\ \E i, j \in DOMAIN dmessages :
       /\ dmessages[i].is_read /\ ~dmessages[j].is_read
       /\ \E k \in DOMAIN messages : messages[k].id = dmessages[i].id /\ messages[k].is_read
       /\ \E k \in DOMAIN messages : messages[k].id = dmessages[j].id /\ ~messages[k].is_read

C26_OneRecorderStoppableWithItsOwnChunks ==
  /\ [](/\ Cardinality(Recording) <= 1
        /\ \A r \in Recording : isRecording /\ mediaRecorderRef = r)
  /\ [][\A r \in DOMAIN recorders :
          (recorders[r].stopTask /\ ~recorders'[r].stopTask)
            => \A k \in DOMAIN audioBlobParts' : audioBlobParts'[k].recorder = r]_vars

====
